---- MODULE Spec2Model ----
(***************************************************************************)
(* A model of the volume raycaster of render/renderer.cpp: the frame       *)
(* orchestrator (Renderer::setConfig, Renderer::render, the framebuffer),  *)
(* the ray/box intersection, the marching tracers and the bisection.       *)
(*                                                                         *)
(* float values are modelled as exact rationals extended with the IEEE     *)
(* special values (+inf, -inf, NaN, and a negative zero for a direction    *)
(* component); rounding is not modelled.                                   *)
(***************************************************************************)
EXTENDS Integers, Sequences, FiniteSets, TLC

VARIABLES
    m_config,       \* Renderer::m_config
    m_frameBuffer,  \* Renderer::m_frameBuffer, a sequence of RGBA pixels
    scene,          \* the borrowed camera and fields of the running render()
    hist,           \* history of the last render(): what missed, what was stale
    par,            \* the tile-parallel loop: pending ranges, workers, writes
    ray,            \* the Ray a geometry/tracer call works on
    field,          \* the volume the call reads: dims and the samples on the ray
    loc,            \* the locals of the running function
    callee,         \* the locals of the bisectionAccuracy call it makes
    pc              \* where the running function is

vars == <<m_config, m_frameBuffer, scene, hist, par, ray, field, loc, callee, pc>>

-----------------------------------------------------------------------------
(* float arithmetic *)

AbsI(x) == IF x < 0 THEN -x ELSE x

RECURSIVE GCD(_, _)
GCD(a, b) == IF b = 0 THEN a ELSE GCD(b, a % b)

LCM(a, b) == (a \div GCD(a, b)) * b

\* The float n/d, in lowest terms with d > 0.
Fin(n, d) ==
    LET g == GCD(AbsI(n), AbsI(d))
        s == IF d < 0 THEN -1 ELSE 1
    IN  [k |-> "fin", n |-> s * (n \div g), d |-> AbsI(d) \div g]

I(n) == Fin(n, 1)
Zero == I(0)
One == I(1)
NZero == [k |-> "nzero", n |-> 0, d |-> 1]
PInf == [k |-> "pinf", n |-> 0, d |-> 1]
NInf == [k |-> "ninf", n |-> 0, d |-> 1]
NaN == [k |-> "nan", n |-> 0, d |-> 1]

IsNaN(a) == a.k = "nan"
IsInf(a) == a.k \in {"pinf", "ninf"}

Sgn(a) ==
    CASE a.k = "pinf" -> 1
      [] a.k = "ninf" -> -1
      [] OTHER -> IF a.n > 0 THEN 1 ELSE IF a.n < 0 THEN -1 ELSE 0

FNeg(a) ==
    CASE a.k = "nan" -> NaN
      [] a.k = "pinf" -> NInf
      [] a.k = "ninf" -> PInf
      [] OTHER -> Fin(-a.n, a.d)

FAdd(a, b) ==
    IF IsNaN(a) \/ IsNaN(b) THEN NaN
    ELSE IF IsInf(a) THEN (IF IsInf(b) /\ a.k # b.k THEN NaN ELSE a)
    ELSE IF IsInf(b) THEN b
    ELSE LET L == LCM(a.d, b.d)
         IN  Fin(a.n * (L \div a.d) + b.n * (L \div b.d), L)

FSub(a, b) == FAdd(a, FNeg(b))

FMul(a, b) ==
    IF IsNaN(a) \/ IsNaN(b) THEN NaN
    ELSE IF IsInf(a) \/ IsInf(b)
         THEN (CASE Sgn(a) * Sgn(b) = 0 -> NaN
                 [] Sgn(a) * Sgn(b) > 0 -> PInf
                 [] OTHER -> NInf)
    ELSE LET g1 == GCD(AbsI(a.n), b.d)
             g2 == GCD(AbsI(b.n), a.d)
         IN  Fin((a.n \div g1) * (b.n \div g2), (a.d \div g2) * (b.d \div g1))

\* 1.0f / a
FInv(a) ==
    CASE a.k = "nan" -> NaN
      [] IsInf(a) -> Zero
      [] a.k = "nzero" -> NInf
      [] OTHER -> IF a.n = 0 THEN PInf ELSE Fin(a.d, a.n)

FDiv(a, b) == FMul(a, FInv(b))

\* -1, 0, 1 as a < b, a = b, a > b; a and b are not NaN.
FCmp(a, b) ==
    IF IsInf(a) \/ IsInf(b)
    THEN (IF a.k = b.k THEN 0
          ELSE IF a.k = "ninf" \/ b.k = "pinf" THEN -1 ELSE 1)
    ELSE LET L == LCM(a.d, b.d)
             x == a.n * (L \div a.d) - b.n * (L \div b.d)
         IN  IF x < 0 THEN -1 ELSE IF x > 0 THEN 1 ELSE 0

FLt(a, b) == ~IsNaN(a) /\ ~IsNaN(b) /\ FCmp(a, b) < 0
FLe(a, b) == ~IsNaN(a) /\ ~IsNaN(b) /\ FCmp(a, b) <= 0
FGt(a, b) == FLt(b, a)
FGe(a, b) == FLe(b, a)
FEq(a, b) == ~IsNaN(a) /\ ~IsNaN(b) /\ FCmp(a, b) = 0

\* std::max(a, b) and std::min(a, b)
FMax(a, b) == IF FLt(a, b) THEN b ELSE a
FMin(a, b) == IF FLt(b, a) THEN b ELSE a

FAbs(a) == IF IsNaN(a) THEN NaN ELSE IF Sgn(a) < 0 THEN FNeg(a) ELSE a

-----------------------------------------------------------------------------
(* the volume and its bounding box *)

MaxDim == 2

DimsSet == {<<a, b, c>> : a \in 1..MaxDim, b \in 1..MaxDim, c \in 1..MaxDim}

\* const Bounds bounds { vec3(0), vec3(dims - 1) }
VolumeBounds(dims) ==
    [lower |-> <<Zero, Zero, Zero>>,
     upper |-> <<I(dims[1] - 1), I(dims[2] - 1), I(dims[3] - 1)>>]

OriginComps == {I(n) : n \in -1..MaxDim}
DirComps == {I(-2), I(-1), NZero, Zero, I(1), I(2)}
Vec3(S) == {<<a, b, c>> : a \in S, b \in S, c \in S}

\* The rays a camera may hand out; tmin and tmax as the Ray is constructed.
Rays ==
    {[origin |-> o, direction |-> d, tmin |-> Zero, tmax |-> PInf] :
        o \in Vec3(OriginComps), d \in Vec3(DirComps)}

-----------------------------------------------------------------------------
(* Renderer::instersectRayVolumeBounds *)

\* bounds.lowerUpper[b]
LowerUpper(bounds, b) == IF b THEN bounds.upper ELSE bounds.lower

\* The result: hit, and the ray as the call leaves it.
instersectRayVolumeBounds(r, bounds) ==
    LET invDir == [i \in 1..3 |-> FInv(r.direction[i])]
        sign == [i \in 1..3 |-> FLt(invDir[i], Zero)]
        near(i) == FMul(FSub(LowerUpper(bounds, sign[i])[i], r.origin[i]), invDir[i])
        far(i) == FMul(FSub(LowerUpper(bounds, ~sign[i])[i], r.origin[i]), invDir[i])
        tmin0 == near(1)
        tmax0 == far(1)
        tymin == near(2)
        tymax == far(2)
        tmin1 == FMax(tmin0, tymin)
        tmax1 == FMin(tmax0, tymax)
        tzmin == near(3)
        tzmax == far(3)
    IN  IF FGt(tmin0, tymax) \/ FGt(tymin, tmax0)
        THEN [hit |-> FALSE, ray |-> r]
        ELSE IF FGt(tmin1, tzmax) \/ FGt(tzmin, tmax1)
        THEN [hit |-> FALSE, ray |-> r]
        ELSE [hit |-> TRUE,
              ray |-> [r EXCEPT !.tmin = FMax(tmin1, tzmin),
                                !.tmax = FMin(tmax1, tzmax)]]

-----------------------------------------------------------------------------
(* values of the variables a specification does not use *)

NoConfig == [renderResolution |-> <<0, 0>>]
NoScene == [camera |-> 0]
NoHist == [miss |-> {}]
NoPar == [ranges |-> {}]
NoRay == [tmin |-> Zero, tmax |-> Zero]
NoField == [dims |-> <<1, 1, 1>>]
NoLoc == [hit |-> FALSE]
NoCallee == [i |-> 0]

-----------------------------------------------------------------------------
(* The geometry module on its own: one call on any ray and any box. *)

InitIntersect ==
    /\ ray \in Rays
    /\ field \in {[dims |-> d] : d \in DimsSet}
    /\ loc = NoLoc
    /\ pc = "call"
    /\ m_config = NoConfig
    /\ m_frameBuffer = <<>>
    /\ scene = NoScene
    /\ hist = NoHist
    /\ par = NoPar
    /\ callee = NoCallee

Intersect ==
    /\ pc = "call"
    /\ LET res == instersectRayVolumeBounds(ray, VolumeBounds(field.dims))
       IN  /\ ray' = res.ray
           /\ loc' = [hit |-> res.hit, origin |-> ray.origin, direction |-> ray.direction]
    /\ pc' = "ret"
    /\ UNCHANGED <<m_config, m_frameBuffer, scene, hist, par, callee, field>>

NextIntersect == Intersect

SpecIntersect == InitIntersect /\ [][NextIntersect]_vars

Dot(u, v) == FAdd(FAdd(FMul(u[1], v[1]), FMul(u[2], v[2])), FMul(u[3], v[3]))

Corners(bounds) ==
    {<<LowerUpper(bounds, a)[1], LowerUpper(bounds, b)[2], LowerUpper(bounds, c)[3]>> :
        a \in BOOLEAN, b \in BOOLEAN, c \in BOOLEAN}

\* The box lies entirely behind the origin: (p - origin) . direction < 0 for
\* every point p of the box (the box is convex: its corners decide).
PointsAway(r, bounds) ==
    \A c \in Corners(bounds) :
        FLt(Dot(<<FSub(c[1], r.origin[1]), FSub(c[2], r.origin[2]),
                  FSub(c[3], r.origin[3])>>, r.direction), Zero)

OriginInside(r, bounds) ==
    \A i \in 1..3 : FLe(bounds.lower[i], r.origin[i]) /\ FLe(r.origin[i], bounds.upper[i])

\* C4: a ray whose origin is outside the box and whose direction points away
\* from it (the whole box is behind the origin) is reported as a miss.
C4_AwayIsMiss ==
    (pc = "ret" /\ PointsAway(ray, VolumeBounds(field.dims))) => ~loc.hit

\* C5: a reported hit has tmin <= tmax, and a ray whose origin lies inside the
\* box is a hit with tmin <= 0 <= tmax.
C5_HitInterval ==
    pc = "ret" =>
        /\ loc.hit => FLe(ray.tmin, ray.tmax)
        /\ OriginInside(ray, VolumeBounds(field.dims)) =>
              /\ loc.hit
              /\ FLe(ray.tmin, Zero)
              /\ FLe(Zero, ray.tmax)

-----------------------------------------------------------------------------
(* vectors and colours *)

V3Add(u, v) == <<FAdd(u[1], v[1]), FAdd(u[2], v[2]), FAdd(u[3], v[3])>>
V3Sub(u, v) == <<FSub(u[1], v[1]), FSub(u[2], v[2]), FSub(u[3], v[3])>>
V3Mul(u, v) == <<FMul(u[1], v[1]), FMul(u[2], v[2]), FMul(u[3], v[3])>>
V3Scale(u, s) == <<FMul(u[1], s), FMul(u[2], s), FMul(u[3], s)>>
V4Add(u, v) == <<FAdd(u[1], v[1]), FAdd(u[2], v[2]), FAdd(u[3], v[3]), FAdd(u[4], v[4])>>
V4Scale(u, s) == <<FMul(u[1], s), FMul(u[2], s), FMul(u[3], s), FMul(u[4], s)>>
Vec4(rgb, a) == <<rgb[1], rgb[2], rgb[3], a>>
Rgb(c) == <<c[1], c[2], c[3]>>
Zero3 == <<Zero, Zero, Zero>>
Zero4 == <<Zero, Zero, Zero, Zero>>

\* The square root of a float that is the square of a rational (the vectors
\* of the model have such lengths); sqrt(NaN) = NaN.
ISqrt(n) == CHOOSE r \in 0..n : r * r = n
FSqrt(a) ==
    CASE IsNaN(a) -> NaN
      [] a.k = "pinf" -> PInf
      [] OTHER -> Fin(ISqrt(a.n), ISqrt(a.d))

Length(v) == FSqrt(Dot(v, v))

\* glm::normalize(v) = v * inversesqrt(dot(v, v)): NaN in every component of
\* the zero vector.
Normalize(v) == V3Scale(v, FInv(Length(v)))

RECURSIVE FPow(_, _)
FPow(a, n) ==
    IF n = 0 THEN One
    ELSE IF n % 2 = 0 THEN LET h == FPow(a, n \div 2) IN FMul(h, h)
    ELSE FMul(a, FPow(a, n - 1))

-----------------------------------------------------------------------------
(* Renderer::computePhongShading *)

specularPower == 100

computePhongShading(color, gradient, L, V) ==
    LET n == Normalize(gradient.dir)
        L_norm == Normalize(L)
        R == V3Sub(V3Scale(n, FMul(I(2), Dot(n, L_norm))), L_norm)
        kx == Fin(1, 10)
        ky == Fin(7, 10)
        kz == Fin(2, 10)
        IS == V3Mul(color, color)
        cos_theta == FDiv(Dot(L_norm, n), FMul(Length(L_norm), Length(n)))
        cos_phi == FDiv(Dot(R, V), FMul(Length(R), Length(V)))
        ambient == V3Scale(IS, kx)
        diffuse == V3Scale(V3Scale(IS, ky), FAbs(cos_theta))
        specular == V3Scale(V3Scale(IS, kz), FPow(cos_phi, specularPower))
    IN  V3Add(V3Add(ambient, diffuse), specular)

-----------------------------------------------------------------------------
(* Renderer::getTFValue *)

\* static_cast<size_t>(x) of a float x >= 0
Trunc(a) == a.n \div a.d

MinI(a, b) == IF a < b THEN a ELSE b

\* The table entry of val; the sequence is 1-based, the vector 0-based.
getTFValue(val, cfg) ==
    LET range01 == FDiv(FSub(val, cfg.tfColorMapIndexStart), cfg.tfColorMapIndexRange)
        i == MinI(Trunc(FMul(range01, I(Len(cfg.tfColorMap)))), Len(cfg.tfColorMap) - 1)
    IN  cfg.tfColorMap[i + 1]

-----------------------------------------------------------------------------
(* Renderer::traceRayComposite *)

\* glm::all(glm::equal(v, vec3(0)))
AllEqualZero(v) == \A i \in 1..3 : FEq(v[i], Zero)

\* The colour fed to the over operator at one sample (lines 286-305).
CompositeSampleColour(samp, cfg, light, V) ==
    LET TFval == getTFValue(samp.val, cfg)
        color == Rgb(TFval)
        A == TFval[4]
    IN  IF cfg.volumeShading
        THEN (IF ~AllEqualZero(samp.gradient.dir)
              THEN Vec4(V3Scale(computePhongShading(color, samp.gradient, light, V), A), A)
              ELSE Zero4)
        ELSE Vec4(V3Scale(color, A), A)

\* C = C_i + (1 - A) * C
CompositeOver(C_i, A, C) == V4Add(C_i, V4Scale(C, FSub(One, A)))

-----------------------------------------------------------------------------
(* Renderer::getTF2DOpacity *)

getTF2DOpacity(intensity, gradientMagnitude, cfg, fld) ==
    LET slope == FDiv(fld.maxMagnitude, cfg.TF2DRadius)
        input == FAbs(FSub(intensity, cfg.TF2DIntensity))
        factor == FDiv(input, FDiv(gradientMagnitude, slope))
        interp_val == FAdd(FSub(One, factor), FMul(factor, Zero))
    IN  IF FGe(gradientMagnitude, FMul(slope, input))
        THEN FMul(cfg.TF2DColor[4], interp_val)
        ELSE Zero

-----------------------------------------------------------------------------
(* the inputs of a tracer call: a culled ray, the samples on it, a config *)

MaxSamples == 3

\* static constexpr float sampleStep = 1.0f
sampleStep == One

Gradients ==
    {[dir |-> d, magnitude |-> Length(d)] :
        d \in {Zero3, <<Zero, Zero, I(1)>>, <<I(2), Zero, Zero>>}}

Samples == {[val |-> I(v), gradient |-> g] : v \in 0..2, g \in Gradients}

TFMaps ==
    { << <<One, Zero, Zero, Fin(1, 2)>>, <<Zero, One, Fin(1, 2), One>> >>,
      << Zero4, <<One, One, One, Fin(31, 32)>> >> }

BaseConfig ==
    [renderResolution |-> <<1, 1>>,
     renderMode |-> "RenderSlicer",
     volumeShading |-> FALSE,
     isoValue |-> One,
     tfColorMap |-> << <<One, Zero, Zero, Fin(1, 2)>>, <<Zero, One, Fin(1, 2), One>> >>,
     tfColorMapIndexStart |-> Zero,
     tfColorMapIndexRange |-> I(2),
     TF2DIntensity |-> One,
     TF2DRadius |-> I(2),
     TF2DColor |-> <<One, Fin(1, 2), Zero, One>>]

\* A hit leaves tmin <= tmax, or a NaN bound.
TracerRays ==
    {[origin |-> <<Zero, Zero, I(-1)>>, direction |-> <<Zero, Zero, One>>,
      tmin |-> a, tmax |-> FAdd(a, Fin(l, 2))] :
        a \in {Zero, Fin(1, 2)}, l \in 0..(2 * MaxSamples - 1)}
    \cup {[origin |-> <<Zero, Zero, I(-1)>>, direction |-> <<Zero, Zero, One>>,
           tmin |-> NaN, tmax |-> One]}

\* The number of samples a march from tmin to tmax visits.
NumSamples(r) ==
    IF FLe(r.tmin, r.tmax) THEN Trunc(FSub(r.tmax, r.tmin)) + 1 ELSE 0

TracerFields(r) ==
    {[dims |-> <<2, 2, 2>>, maximum |-> I(2), maxMagnitude |-> I(2), samples |-> ss] :
        ss \in [1..NumSamples(r) -> Samples]}

TracerScene == [cameraPos |-> <<Zero, Zero, I(-3)>>]

-----------------------------------------------------------------------------
(* traceRayComposite, one loop iteration at a time *)

InitComposite ==
    /\ ray \in TracerRays
    /\ field \in TracerFields(ray)
    /\ m_config \in {[BaseConfig EXCEPT !.renderMode = "RenderComposite",
                                        !.volumeShading = sh, !.tfColorMap = m] :
                        sh \in BOOLEAN, m \in TFMaps}
    /\ scene = TracerScene
    /\ loc = [t |-> ray.tmax, i |-> 0, C |-> Zero4, C_i |-> Zero4, A |-> Zero,
              prevAlpha |-> Zero]
    /\ pc = "composite"
    /\ m_frameBuffer = <<>>
    /\ hist = NoHist
    /\ par = NoPar
    /\ callee = NoCallee

CompositeStep ==
    /\ pc = "composite"
    /\ FGe(loc.t, ray.tmin)
    /\ LET samp == field.samples[loc.i + 1]
           A == getTFValue(samp.val, m_config)[4]
           C_i == CompositeSampleColour(samp, m_config, scene.cameraPos, ray.direction)
       IN  loc' = [t |-> FSub(loc.t, sampleStep), i |-> loc.i + 1,
                   C |-> CompositeOver(C_i, A, loc.C), C_i |-> C_i, A |-> A,
                   prevAlpha |-> loc.C[4]]
    /\ UNCHANGED <<m_config, m_frameBuffer, scene, hist, par, callee, ray, field, pc>>

CompositeReturn ==
    /\ pc = "composite"
    /\ ~FGe(loc.t, ray.tmin)
    /\ pc' = "done"
    /\ UNCHANGED <<m_config, m_frameBuffer, scene, hist, par, callee, ray, field, loc>>

NextComposite == CompositeStep \/ CompositeReturn

SpecComposite == InitComposite /\ [][NextComposite]_vars

InUnit(a) == FLe(Zero, a) /\ FLe(a, One)

\* C6: with every per-sample opacity in [0,1], the accumulated alpha after a
\* marching step is >= the accumulated alpha before it and within [0,1]
\* (traceRayComposite, shading disabled or enabled, zero gradients included).
C6_AlphaMonotone ==
    (loc.i > 0 /\ \A k \in 1..Len(m_config.tfColorMap) : InUnit(m_config.tfColorMap[k][4]))
        => FLe(loc.prevAlpha, loc.C[4]) /\ InUnit(loc.C[4])

\* C9: the colour fed to the over operator is the Phong-shaded TF colour times
\* the opacity when shading is on and the gradient is non-zero, and the raw TF
\* colour times the opacity, with alpha the opacity, in every other case.
C9_SampleColour ==
    loc.i > 0 =>
        LET samp == field.samples[loc.i]
            TFval == getTFValue(samp.val, m_config)
        IN  loc.C_i =
              IF m_config.volumeShading /\ ~AllEqualZero(samp.gradient.dir)
              THEN Vec4(V3Scale(computePhongShading(Rgb(TFval), samp.gradient,
                                    scene.cameraPos, ray.direction), TFval[4]), TFval[4])
              ELSE Vec4(V3Scale(Rgb(TFval), TFval[4]), TFval[4])

-----------------------------------------------------------------------------
(* traceRayTF2D, one loop iteration at a time *)

\* A march that stops as soon as half of the light is absorbed.
earlyExitHalf == Fin(1, 2)

\* if (Ai >= 0.95) break;
earlyExitAlpha == Fin(19, 20)

\* The opacity of one sample (lines 345-350).
TF2DSampleOpacity(samp, cfg, fld) ==
    getTF2DOpacity(samp.val, samp.gradient.magnitude, cfg, fld)

\* Ci = Ci + currentColor * (1 - Ai), currentColor = vec3(colorVector * TFOpacity)
TF2DOverColour(Ci, Ai, TFOpacity, colorVector) ==
    V3Add(Ci, V3Scale(Rgb(V4Scale(colorVector, TFOpacity)), FSub(One, Ai)))

\* Ai = Ai + (1 - Ai) * TFOpacity
TF2DOverAlpha(Ai, TFOpacity) == FAdd(Ai, FMul(FSub(One, Ai), TFOpacity))

InitTF2D ==
    /\ ray \in TracerRays
    /\ field \in TracerFields(ray)
    /\ m_config \in {[BaseConfig EXCEPT !.renderMode = "RenderTF2D",
                                        !.TF2DColor = <<One, Fin(1, 2), Zero, a>>] :
                        a \in {Fin(1, 2), Fin(31, 32), One}}
    /\ scene = TracerScene
    /\ loc = [t |-> ray.tmin, i |-> 0, C |-> Zero4, Ci |-> Zero3, Ai |-> Zero,
              prevAlpha |-> Zero, broke |-> FALSE]
    /\ pc = "tf2d"
    /\ m_frameBuffer = <<>>
    /\ hist = NoHist
    /\ par = NoPar
    /\ callee = NoCallee

TF2DStep ==
    /\ pc = "tf2d"
    /\ FLe(loc.t, ray.tmax)
    /\ ~FGe(loc.Ai, earlyExitAlpha)
    /\ LET samp == field.samples[loc.i + 1]
           TFval == getTFValue(samp.val, m_config)
           TFOpacity == TF2DSampleOpacity(samp, m_config, field)
           Ci == TF2DOverColour(loc.Ci, loc.Ai, TFOpacity, m_config.TF2DColor)
           Ai == TF2DOverAlpha(loc.Ai, TFOpacity)
       IN  loc' = [t |-> FAdd(loc.t, sampleStep), i |-> loc.i + 1,
                   C |-> Vec4(Ci, Ai), Ci |-> Ci, Ai |-> Ai,
                   prevAlpha |-> loc.Ai, broke |-> FALSE]
    /\ UNCHANGED <<m_config, m_frameBuffer, scene, hist, par, callee, ray, field, pc>>

\* The break of line 341, taken with samples left on the segment.
TF2DBreak ==
    /\ pc = "tf2d"
    /\ FLe(loc.t, ray.tmax)
    /\ FGe(loc.Ai, earlyExitAlpha)
    /\ loc' = [loc EXCEPT !.broke = TRUE]
    /\ pc' = "done"
    /\ UNCHANGED <<m_config, m_frameBuffer, scene, hist, par, callee, ray, field>>

TF2DReturn ==
    /\ pc = "tf2d"
    /\ ~FLe(loc.t, ray.tmax)
    /\ pc' = "done"
    /\ UNCHANGED <<m_config, m_frameBuffer, scene, hist, par, callee, ray, field, loc>>

NextTF2D == TF2DStep \/ TF2DBreak \/ TF2DReturn

SpecTF2D == InitTF2D /\ [][NextTF2D]_vars

\* The same front-to-back march over the samples from..Len(samples), none skipped.
RECURSIVE FullMarchFrom(_, _, _, _, _)
FullMarchFrom(from, Ci, Ai, cfg, fld) ==
    IF from > Len(fld.samples) THEN Vec4(Ci, Ai)
    ELSE LET op == TF2DSampleOpacity(fld.samples[from], cfg, fld)
         IN  FullMarchFrom(from + 1, TF2DOverColour(Ci, Ai, op, cfg.TF2DColor),
                           TF2DOverAlpha(Ai, op), cfg, fld)

FullMarch == FullMarchFrom(1, Zero3, Zero, m_config, field)

OpacitiesInUnit ==
    \A k \in 1..Len(field.samples) :
        InUnit(TF2DSampleOpacity(field.samples[k], m_config, field))

\* C7 as stated: the colour and alpha traceRayTF2D returns equal those of the
\* same march run over all the samples of the segment without the early exit.
C7_EarlyExitExact ==
    (pc = "done" /\ OpacitiesInUnit) => loc.C = FullMarch

\* C7 as amended: the result equals the full march whenever the break is not
\* taken; when it is taken the returned alpha is >= 0.95, the full march's alpha
\* is at least the returned one and at most 0.05 above it, and each colour
\* channel of the full march is at least the returned one and at most 0.05
\* times the configured channel above it.
C7_EarlyExitBounded ==
    (pc = "done" /\ OpacitiesInUnit) =>
        /\ ~loc.broke => loc.C = FullMarch
        /\ loc.broke =>
              /\ FGe(loc.C[4], Fin(19, 20))
              /\ FLe(loc.C[4], FullMarch[4])
              /\ FLe(FSub(FullMarch[4], loc.C[4]), Fin(1, 20))
              /\ \A c \in 1..3 :
                    /\ FLe(loc.C[c], FullMarch[c])
                    /\ FLe(FSub(FullMarch[c], loc.C[c]),
                           FMul(Fin(1, 20), m_config.TF2DColor[c]))

\* The break was taken with a sample of non-zero opacity left unvisited.
C7_Witness ==
    /\ pc = "done"
    /\ OpacitiesInUnit
    /\ loc.broke
    /\ loc.C # FullMarch

\* The TF-2D half of C6: the accumulated alpha never decreases and stays in [0,1].
TF2DAlphaMonotone ==
    (loc.i > 0 /\ OpacitiesInUnit) => FLe(loc.prevAlpha, loc.Ai) /\ InUnit(loc.Ai)

-----------------------------------------------------------------------------
(* Renderer::bisectionAccuracy, one loop iteration at a time *)

\* A budget of one iteration more.
maxIterEleven == 10 + 1

\* int max_iter = 10
max_iter == 10

\* const float threshold = 0.01f
threshold == Fin(1, 100)

\* t = (t_left + t_right) / 2
Midpoint(t_left, t_right) == FDiv(FAdd(t_left, t_right), I(2))

\* abs(val - isoValue) < threshold
BisectClose(val, isoValue) == FLt(FAbs(FSub(val, isoValue)), threshold)

\* The frame of a call bisectionAccuracy(ray, t0, t1, isoValue), before the loop.
\* evals, found, lastMid and ret record what the call did.
BisectFrame(t0, t1, isoValue) ==
    [t0 |-> t0, t1 |-> t1, isoValue |-> isoValue,
     t_left |-> t0, t_right |-> t1, t |-> Midpoint(t0, t1), i |-> 0,
     val |-> Zero, evals |-> 0, found |-> FALSE, lastMid |-> Midpoint(t0, t1),
     ret |-> Zero]

\* What getSampleInterpolate may return at a midpoint.
BisectVals(isoValue) ==
    {FAdd(isoValue, d) :
        d \in {I(-1), Fin(-1, 100), Fin(1, 200), I(1)}}

\* An iteration that ends in "return t" (line 233).
BisectFound ==
    /\ pc = "bisect"
    /\ callee.i < max_iter
    /\ \E val \in BisectVals(callee.isoValue) :
          LET t == Midpoint(callee.t_left, callee.t_right)
          IN  /\ BisectClose(val, callee.isoValue)
              /\ callee' = [callee EXCEPT !.t = t, !.val = val, !.lastMid = t,
                                          !.evals = @ + 1, !.found = TRUE, !.ret = t]
    /\ pc' = "bisect_ret"
    /\ UNCHANGED <<m_config, m_frameBuffer, scene, hist, par, ray, field, loc>>

\* An iteration that moves a search boundary (lines 236-239).
BisectNarrow ==
    /\ pc = "bisect"
    /\ callee.i < max_iter
    /\ \E val \in BisectVals(callee.isoValue) :
          LET t == Midpoint(callee.t_left, callee.t_right)
          IN  /\ ~BisectClose(val, callee.isoValue)
              /\ callee' = [callee EXCEPT
                                !.t = t, !.val = val, !.lastMid = t, !.evals = @ + 1,
                                !.t_right = IF FGt(val, callee.isoValue) THEN t ELSE @,
                                !.t_left = IF FGt(val, callee.isoValue) THEN @ ELSE t,
                                !.i = @ + 1]
    /\ UNCHANGED <<m_config, m_frameBuffer, scene, hist, par, ray, field, loc, pc>>

\* The loop ran out of iterations: "return t" (line 241).
BisectExhausted ==
    /\ pc = "bisect"
    /\ ~(callee.i < max_iter)
    /\ callee' = [callee EXCEPT !.ret = callee.t]
    /\ pc' = "bisect_ret"
    /\ UNCHANGED <<m_config, m_frameBuffer, scene, hist, par, ray, field, loc>>

Brackets ==
    {<<a, FAdd(a, w)>> : a \in {I(-1), Zero, Fin(1, 2)}, w \in {Zero, One, I(2)}}

InitBisect ==
    /\ \E b \in Brackets, iso \in {One, I(2)} :
          /\ callee = BisectFrame(b[1], b[2], iso)
          /\ m_config = [BaseConfig EXCEPT !.renderMode = "RenderIso", !.isoValue = iso]
    /\ ray = [origin |-> <<Zero, Zero, I(-1)>>, direction |-> <<Zero, Zero, One>>,
              tmin |-> Zero, tmax |-> I(2)]
    /\ field = [dims |-> <<2, 2, 2>>]
    /\ loc = NoLoc
    /\ pc = "bisect"
    /\ scene = TracerScene
    /\ m_frameBuffer = <<>>
    /\ hist = NoHist
    /\ par = NoPar

NextBisect == BisectFound \/ BisectNarrow \/ BisectExhausted

SpecBisect == InitBisect /\ [][NextBisect]_vars

\* C8: bisectionAccuracy makes at most 10 midpoint evaluations (each one that
\* does not return uses up one loop iteration) and returns a t in [t0, t1];
\* returned from inside the loop, the sample at the returned t is
\* within 0.01 of the iso value, and otherwise all 10 evaluations were made and
\* the returned t is the last midpoint evaluated.
C8_Bisection ==
    /\ pc \in {"bisect", "bisect_ret"} => callee.evals <= 10
    /\ pc = "bisect" => callee.evals = callee.i
    /\ pc = "bisect_ret" =>
          /\ FLe(callee.t0, callee.ret) /\ FLe(callee.ret, callee.t1)
          /\ callee.ret = callee.lastMid
          /\ callee.found =>
                FLt(FAbs(FSub(callee.val, callee.isoValue)), Fin(1, 100))
          /\ ~callee.found => callee.evals = 10

\* The budget ran out on a bracket of positive width.
C8_Witness ==
    /\ pc = "bisect_ret"
    /\ ~callee.found
    /\ callee.evals = 10
    /\ FLt(callee.t0, callee.ret)
    /\ FLt(callee.ret, callee.t1)

-----------------------------------------------------------------------------
(* Renderer::traceRayISO, one loop iteration at a time *)

\* const glm::vec3 isoColor { 0.8f, 0.8f, 0.2f }
isoColor == <<Fin(4, 5), Fin(4, 5), Fin(1, 5)>>

\* The samples on the ray; the march reads no gradient.
ISOFields(r) ==
    {[dims |-> <<2, 2, 2>>, maximum |-> I(2), maxMagnitude |-> I(2), samples |-> ss] :
        ss \in [1..NumSamples(r) ->
                  {[val |-> I(v), gradient |-> [dir |-> Zero3, magnitude |-> Zero]] :
                      v \in 0..2}]}

InitISO ==
    /\ ray \in {r \in TracerRays : r.tmin.d = 1 /\ r.tmax.d = 1}
    /\ field \in ISOFields(ray)
    /\ m_config \in {[BaseConfig EXCEPT !.renderMode = "RenderIso",
                                        !.volumeShading = sh, !.isoValue = iso] :
                        sh \in BOOLEAN, iso \in {One, I(2)}}
    /\ scene = TracerScene
    /\ loc = [t |-> ray.tmin, i |-> 0, val |-> Zero, t_new |-> Zero,
              shaded |-> FALSE, ret |-> Zero4]
    /\ callee = NoCallee
    /\ pc = "iso"
    /\ m_frameBuffer = <<>>
    /\ hist = NoHist
    /\ par = NoPar

ISOVal == field.samples[loc.i + 1].val

\* The sample is below the iso value: on to the next one.
ISOStep ==
    /\ pc = "iso"
    /\ FLe(loc.t, ray.tmax)
    /\ ~FGe(ISOVal, m_config.isoValue)
    /\ loc' = [loc EXCEPT !.t = FAdd(@, sampleStep), !.i = @ + 1, !.val = ISOVal]
    /\ UNCHANGED <<m_config, m_frameBuffer, scene, hist, par, callee, ray, field, pc>>

\* No shading: return the iso colour (line 191).
ISOFlat ==
    /\ pc = "iso"
    /\ FLe(loc.t, ray.tmax)
    /\ FGe(ISOVal, m_config.isoValue)
    /\ ~m_config.volumeShading
    /\ loc' = [loc EXCEPT !.val = ISOVal, !.ret = Vec4(isoColor, One)]
    /\ pc' = "done"
    /\ UNCHANGED <<m_config, m_frameBuffer, scene, hist, par, callee, ray, field>>

\* Lines 199-204: shade at t_new with the gradient found there.
ISOShade(t_new, gradient) ==
    [loc EXCEPT !.t_new = t_new, !.shaded = TRUE,
                !.ret = Vec4(computePhongShading(isoColor, gradient, scene.cameraPos,
                                                 ray.direction), One)]

\* The sample is exactly the iso value: t_new = t.
ISOExact ==
    /\ pc = "iso"
    /\ FLe(loc.t, ray.tmax)
    /\ FGe(ISOVal, m_config.isoValue)
    /\ m_config.volumeShading
    /\ FEq(ISOVal, m_config.isoValue)
    /\ \E g \in Gradients : loc' = [ISOShade(loc.t, g) EXCEPT !.val = ISOVal]
    /\ pc' = "done"
    /\ UNCHANGED <<m_config, m_frameBuffer, scene, hist, par, callee, ray, field>>

\* The sample is above the iso value: bisectionAccuracy(ray, t - 1.0f, t, isoVal).
ISOCallBisect ==
    /\ pc = "iso"
    /\ FLe(loc.t, ray.tmax)
    /\ FGe(ISOVal, m_config.isoValue)
    /\ m_config.volumeShading
    /\ ~FEq(ISOVal, m_config.isoValue)
    /\ loc' = [loc EXCEPT !.val = ISOVal]
    /\ callee' = BisectFrame(FSub(loc.t, One), loc.t, m_config.isoValue)
    /\ pc' = "bisect"
    /\ UNCHANGED <<m_config, m_frameBuffer, scene, hist, par, ray, field>>

\* bisectionAccuracy has returned: t_new is its result.
ISOAfterBisect ==
    /\ pc = "bisect_ret"
    /\ \E g \in Gradients : loc' = ISOShade(callee.ret, g)
    /\ pc' = "done"
    /\ UNCHANGED <<m_config, m_frameBuffer, scene, hist, par, callee, ray, field>>

\* No sample reached the iso value: opaque black (line 208).
ISOMiss ==
    /\ pc = "iso"
    /\ ~FLe(loc.t, ray.tmax)
    /\ loc' = [loc EXCEPT !.ret = Vec4(Zero3, One)]
    /\ pc' = "done"
    /\ UNCHANGED <<m_config, m_frameBuffer, scene, hist, par, callee, ray, field>>

NextISO ==
    \/ ISOStep \/ ISOFlat \/ ISOExact \/ ISOCallBisect \/ ISOMiss
    \/ BisectFound \/ BisectNarrow \/ BisectExhausted
    \/ ISOAfterBisect

SpecISO == InitISO /\ [][NextISO]_vars

\* C10: with volume shading on, every bracket traceRayISO passes to
\* bisectionAccuracy is [t - sampleStep, t] with both ends in [tmin, tmax], and
\* the position t_new where the gradient is sampled lies in [tmin, tmax]; the
\* first sample (t = tmin) being above the iso value is included.
C10_BracketInside ==
    /\ pc \in {"bisect", "bisect_ret"} =>
          /\ callee.t0 = FSub(loc.t, sampleStep)
          /\ callee.t1 = loc.t
          /\ FLe(ray.tmin, callee.t0)
          /\ FLe(callee.t1, ray.tmax)
    /\ (pc = "done" /\ loc.shaded) =>
          FLe(ray.tmin, loc.t_new) /\ FLe(loc.t_new, ray.tmax)

-----------------------------------------------------------------------------
(* the frame orchestrator: configuration, framebuffer, camera *)

MaxPixels == 4

RenderModes == {"RenderSlicer", "RenderMIP", "RenderComposite", "RenderIso", "RenderTF2D"}

\* The screens of at most MaxPixels pixels.
Resolutions ==
    {res \in {<<w, h>> : w \in 1..MaxPixels, h \in 1..MaxPixels} :
        res[1] * res[2] <= MaxPixels}

RenderConfigs ==
    {[BaseConfig EXCEPT !.renderResolution = res, !.renderMode = m] :
        res \in Resolutions, m \in RenderModes}

\* The cameras and fields a Renderer may be pointed at. A camera hands out the
\* ray of a point of the image plane; a field decides what a tracer returns.
Cameras ==
    {[pos |-> <<Fin(1, 2), Fin(1, 2), I(-1)>>, forward |-> <<Zero, Zero, One>>, scale |-> One],
     [pos |-> <<Fin(3, 2), Fin(1, 2), I(-1)>>, forward |-> <<Zero, Zero, One>>, scale |-> One],
     [pos |-> <<Fin(3, 4), Fin(3, 4), I(-1)>>, forward |-> <<Zero, Zero, One>>, scale |-> Fin(1, 2)],
     [pos |-> <<Fin(1, 2), Fin(1, 2), I(3)>>, forward |-> <<Zero, Zero, One>>, scale |-> One],
     [pos |-> <<I(5), I(5), I(-1)>>, forward |-> <<Zero, Zero, One>>, scale |-> One]}

Scenes == {[camera |-> c, dims |-> <<2, 2, 2>>, level |-> l] : c \in Cameras, l \in 0..1}

\* m_pCamera->generateRay(ndc): origin on the image plane, direction forward.
generateRay(camera, ndc) ==
    [origin |-> V3Add(camera.pos, V3Scale(<<ndc[1], ndc[2], Zero>>, camera.scale)),
     direction |-> camera.forward, tmin |-> Zero, tmax |-> PInf]

\* glm::vec2(x, y) / glm::vec2(resolution) * 2.0f - 1.0f
PixelNdc(x, y, res) ==
    <<FSub(FMul(FDiv(I(x), I(res[1])), I(2)), One),
      FSub(FMul(FDiv(I(y), I(res[2])), I(2)), One)>>

\* What the tracer of the mode returns for the pixel: a function of the
\* configuration, the ray and the borrowed fields, which a render pass only
\* reads. Slicer, MIP and Iso return alpha 1.
TraceRay(cfg, scn, x, y) ==
    LET g == Fin(1 + ((x + 2 * y + scn.level) % 2), 2)
        grey == <<g, g, g>>
    IN  CASE cfg.renderMode = "RenderSlicer" -> Vec4(grey, One)
          [] cfg.renderMode = "RenderMIP" -> Vec4(grey, One)
          [] cfg.renderMode = "RenderComposite" -> Vec4(V3Scale(grey, g), g)
          [] cfg.renderMode = "RenderIso" -> Vec4(isoColor, One)
          [] cfg.renderMode = "RenderTF2D" -> Vec4(V3Scale(Rgb(cfg.TF2DColor), g), g)

\* Whether the ray of pixel (x, y) passes the cull of line 98, for every scene,
\* resolution and pixel.
HitTable ==
    [scn \in Scenes |->
        [res \in Resolutions |->
            [p \in {<<x, y>> : x \in 0..(res[1] - 1), y \in 0..(res[2] - 1)} |->
                instersectRayVolumeBounds(
                    generateRay(scn.camera, PixelNdc(p[1], p[2], res)),
                    VolumeBounds(scn.dims)).hit]]]

PixelHit(cfg, scn, x, y) == HitTable[scn][cfg.renderResolution][<<x, y>>]

\* Renderer::fillColor's index into the 0-based m_frameBuffer.
FillIndex(x, y, cfg) == cfg.renderResolution[1] * y + x

\* Renderer::fillColor
fillColor(fb, x, y, color, cfg) ==
    [fb EXCEPT ![FillIndex(x, y, cfg) + 1] = color]

\* A resize to a square of the width: the height of the resolution is not read.
resizeImageSquare(fb, resolution) ==
    [i \in 1..(resolution[1] * resolution[1]) |->
        IF i <= Len(fb) THEN fb[i] ELSE Zero4]

\* Renderer::resizeImage: vector::resize keeps the elements that fit and
\* appends vec4(0) for the rest.
resizeImage(fb, resolution) ==
    [i \in 1..(resolution[1] * resolution[2]) |->
        IF i <= Len(fb) THEN fb[i] ELSE Zero4]

\* A render pass that does not clear: the buffer is left as it is.
resetImageKeep(fb) == fb

\* Renderer::resetImage
resetImage(fb) == [i \in 1..Len(fb) |-> Zero4]

\* The body of the pixel loop (lines 92-126).
RenderPixel(fb, x, y, cfg, scn) ==
    IF ~PixelHit(cfg, scn, x, y) THEN fb
    ELSE fillColor(fb, x, y, TraceRay(cfg, scn, x, y), cfg)

\* The single-threaded loops: x outside, y inside. k counts the pixels done.
RECURSIVE RenderLoop(_, _, _, _)
RenderLoop(fb, k, cfg, scn) ==
    LET w == cfg.renderResolution[1]
        h == cfg.renderResolution[2]
    IN  IF k >= w * h THEN fb
        ELSE RenderLoop(RenderPixel(fb, k \div h, k % h, cfg, scn), k + 1, cfg, scn)

NonZero(fb) == {i \in 1..Len(fb) : fb[i] # Zero4}

\* Renderer::Renderer
Init ==
    /\ m_config \in RenderConfigs
    /\ m_frameBuffer = resizeImage(<<>>, m_config.renderResolution)
    /\ scene \in Scenes
    /\ hist = [stale |-> {}, lastOp |-> "construct"]
    /\ pc = "idle"
    /\ par = NoPar
    /\ ray = NoRay
    /\ field = NoField
    /\ loc = NoLoc
    /\ callee = NoCallee

\* Renderer::setConfig
SetConfig(config) ==
    /\ pc \in {"idle", "rendered"}
    /\ m_frameBuffer' =
          IF config.renderResolution # m_config.renderResolution
          THEN resizeImage(m_frameBuffer, config.renderResolution)
          ELSE m_frameBuffer
    /\ m_config' = config
    /\ hist' = [hist EXCEPT !.lastOp =
                    IF config.renderResolution # m_config.renderResolution
                    THEN "resize" ELSE "keep"]
    /\ pc' = "idle"
    /\ UNCHANGED <<scene, par, ray, field, loc, callee>>

\* Renderer::render, single-threaded (PARALLELISM == 0), with the camera and
\* fields as they are when it is called.
Render(scn) ==
    /\ pc \in {"idle", "rendered"}
    /\ scene' = scn
    /\ hist' = [stale |-> NonZero(m_frameBuffer), lastOp |-> "render"]
    /\ m_frameBuffer' = RenderLoop(resetImage(m_frameBuffer), 0, m_config, scn)
    /\ pc' = "rendered"
    /\ UNCHANGED <<m_config, par, ray, field, loc, callee>>

Next ==
    \/ \E config \in RenderConfigs : SetConfig(config)
    \/ \E scn \in Scenes : Render(scn)

Spec == Init /\ [][Next]_vars

Pixels(cfg) ==
    {<<x, y>> : x \in 0..(cfg.renderResolution[1] - 1),
                y \in 0..(cfg.renderResolution[2] - 1)}

\* C1: when render() has completed, every pixel whose ray missed the bounding
\* box holds (0,0,0,0), whatever the framebuffer held before the pass.
C1_MissIsBackground ==
    pc = "rendered" =>
        \A p \in Pixels(m_config) :
            ~PixelHit(m_config, scene, p[1], p[2]) =>
                /\ FillIndex(p[1], p[2], m_config) + 1 \in DOMAIN m_frameBuffer
                /\ m_frameBuffer[FillIndex(p[1], p[2], m_config) + 1] = Zero4

\* A pass has completed in which a pixel missed whose slot held a colour of an
\* earlier frame.
C1_Witness ==
    /\ pc = "rendered"
    /\ \E p \in Pixels(m_config) :
          /\ ~PixelHit(m_config, scene, p[1], p[2])
          /\ FillIndex(p[1], p[2], m_config) + 1 \in hist.stale

\* C2: the framebuffer holds width * height pixels of the stored configuration,
\* and the index render() writes for every pixel of the screen is inside it.
C2_BufferMatchesResolution ==
    /\ Len(m_frameBuffer) = m_config.renderResolution[1] * m_config.renderResolution[2]
    /\ \A p \in Pixels(m_config) :
          FillIndex(p[1], p[2], m_config) \in 0..(Len(m_frameBuffer) - 1)

\* setConfig has just changed the resolution, and pixels of a frame of the former
\* resolution are still in the buffer.
C2_Witness ==
    /\ hist.lastOp = "resize"
    /\ NonZero(m_frameBuffer) # {}
    /\ m_config.renderResolution = <<1, 2>>
    /\ Len(m_frameBuffer) = 2

-----------------------------------------------------------------------------
(* Renderer::render with tbb::parallel_for over a blocked_range2d (PARALLELISM *)
(* == 1): the screen range is split into tiles, workers run the tiles, and    *)
(* parallel_for returns when no tile is left and no worker is running.        *)

NumWorkers == 2

Workers == 1..NumWorkers

IdleWorker == [busy |-> FALSE, rows |-> <<0, 0>>, cols |-> <<0, 0>>, y |-> 0, x |-> 0]

\* const tbb::blocked_range2d<int> screenRange { 0, resolution.y, 0, resolution.x }
ScreenRange(cfg) ==
    [rows |-> <<0, cfg.renderResolution[2]>>, cols |-> <<0, cfg.renderResolution[1]>>]

ParIdle == [ranges |-> {}, workers |-> [w \in Workers |-> IdleWorker],
            writes |-> <<>>, done |-> {}, ran |-> {}]

InitPar ==
    /\ m_config \in RenderConfigs
    /\ m_frameBuffer = resizeImage(<<>>, m_config.renderResolution)
    /\ scene \in Scenes
    /\ hist = [stale |-> {}, lastOp |-> "construct"]
    /\ pc = "idle"
    /\ par = ParIdle
    /\ ray = NoRay
    /\ field = NoField
    /\ loc = NoLoc
    /\ callee = NoCallee

\* render() up to the parallel_for: resetImage(), then the whole screen is the
\* one range to run.
ParRenderBegin(scn) ==
    /\ pc \in {"idle", "rendered"}
    /\ scene' = scn
    /\ m_frameBuffer' = resetImage(m_frameBuffer)
    /\ par' = [ParIdle EXCEPT !.ranges = {ScreenRange(m_config)},
                              !.writes = [i \in 1..Len(m_frameBuffer) |-> 0]]
    /\ pc' = "par"
    /\ UNCHANGED <<m_config, hist, ray, field, loc, callee>>

\* The partitioner splits a range of more than one row into two.
ParSplitRows(r, m) ==
    /\ pc = "par"
    /\ r \in par.ranges
    /\ r.rows[1] < m /\ m < r.rows[2]
    /\ par' = [par EXCEPT !.ranges = (@ \ {r}) \cup
                    {[r EXCEPT !.rows = <<r.rows[1], m>>], [r EXCEPT !.rows = <<m, r.rows[2]>>]}]
    /\ UNCHANGED <<m_config, m_frameBuffer, scene, hist, ray, field, loc, callee, pc>>

\* The partitioner splits a range of more than one column into two.
ParSplitCols(r, m) ==
    /\ pc = "par"
    /\ r \in par.ranges
    /\ r.cols[1] < m /\ m < r.cols[2]
    /\ par' = [par EXCEPT !.ranges = (@ \ {r}) \cup
                    {[r EXCEPT !.cols = <<r.cols[1], m>>], [r EXCEPT !.cols = <<m, r.cols[2]>>]}]
    /\ UNCHANGED <<m_config, m_frameBuffer, scene, hist, ray, field, loc, callee, pc>>

\* A worker calls the lambda on a tile: y = begin(rows), x = begin(cols).
ParTake(w, r) ==
    /\ pc = "par"
    /\ r \in par.ranges
    /\ ~par.workers[w].busy
    /\ par' = [par EXCEPT !.ranges = @ \ {r},
                          !.workers[w] = [busy |-> TRUE, rows |-> r.rows, cols |-> r.cols,
                                          y |-> r.rows[1], x |-> r.cols[1]],
                          !.ran = @ \cup {w}]
    /\ UNCHANGED <<m_config, m_frameBuffer, scene, hist, ray, field, loc, callee, pc>>

\* A worker runs the loop body on the pixel it is at and steps to the next one
\* of its tile (x inside, y outside); after the last one the lambda returns.
ParPixel(w) ==
    /\ pc = "par"
    /\ par.workers[w].busy
    /\ LET me == par.workers[w]
           lastX == me.x + 1 = me.cols[2]
           lastY == me.y + 1 = me.rows[2]
           idx == FillIndex(me.x, me.y, m_config) + 1
       IN  /\ m_frameBuffer' = RenderPixel(m_frameBuffer, me.x, me.y, m_config, scene)
           /\ par' = [par EXCEPT
                        !.workers[w] =
                            IF lastX /\ lastY THEN IdleWorker
                            ELSE IF lastX THEN [me EXCEPT !.x = me.cols[1], !.y = @ + 1]
                            ELSE [me EXCEPT !.x = @ + 1],
                        !.writes = IF PixelHit(m_config, scene, me.x, me.y)
                                      /\ idx \in DOMAIN par.writes
                                   THEN [@ EXCEPT ![idx] = @ + 1] ELSE @,
                        !.done = @ \cup {<<me.x, me.y>>}]
    /\ UNCHANGED <<m_config, scene, hist, ray, field, loc, callee, pc>>

\* A parallel_for that returns when no tile is left to hand out, without waiting
\* for the workers that are still inside a tile.
ParRenderEndNoJoin ==
    /\ pc = "par"
    /\ par.ranges = {}
    /\ pc' = "rendered"
    /\ UNCHANGED <<m_config, m_frameBuffer, scene, hist, par, ray, field, loc, callee>>

\* parallel_for returns, and render() with it.
ParRenderEnd ==
    /\ pc = "par"
    /\ par.ranges = {}
    /\ \A w \in Workers : ~par.workers[w].busy
    /\ pc' = "rendered"
    /\ UNCHANGED <<m_config, m_frameBuffer, scene, hist, par, ray, field, loc, callee>>

NextPar ==
    \/ \E scn \in Scenes : ParRenderBegin(scn)
    \/ \E r \in par.ranges : \E m \in 1..MaxPixels : ParSplitRows(r, m)
    \/ \E r \in par.ranges : \E m \in 1..MaxPixels : ParSplitCols(r, m)
    \/ \E w \in Workers : \E r \in par.ranges : ParTake(w, r)
    \/ \E w \in Workers : ParPixel(w)
    \/ ParRenderEnd

SpecPar == InitPar /\ [][NextPar]_vars

\* C3: the tile-parallel render() leaves the framebuffer the single-threaded
\* loop leaves, under every split of the screen into tiles and every
\* interleaving of the workers: no framebuffer index is written twice in a
\* pass, and render() returns only after every pixel has been processed.
C3_ParallelEqualsSequential ==
    /\ pc \in {"par", "rendered"} =>
          \A i \in DOMAIN par.writes : par.writes[i] <= 1
    /\ pc = "rendered" =>
          /\ par.done = Pixels(m_config)
          /\ m_frameBuffer = RenderLoop(resetImage(m_frameBuffer), 0, m_config, scene)

\* A pass has returned in which more than one worker ran tiles and more than
\* one pixel was written.
C3_Witness ==
    /\ pc = "rendered"
    /\ Cardinality(par.ran) >= 2
    /\ Cardinality(NonZero(m_frameBuffer)) >= 2

====
